---- MODULE Spec2Model ----
(***************************************************************************)
(* Model of pysmaev.core.SmaEvCharger: the session / token lifecycle.      *)
(*                                                                         *)
(* The object runs on one asyncio event loop.  A coroutine runs without    *)
(* interruption until it awaits the HTTP request in request_json; so each  *)
(* action below is one uninterrupted run of a coroutine between two        *)
(* suspension points (or one timer callback).                              *)
(*                                                                         *)
(* Strings are modelled by naturals: NoToken (0) is the empty string "",   *)
(* 1..MaxToken are the non-empty access tokens a server can hand out and   *)
(* 1..MaxRefreshToken the non-empty refresh tokens.                        *)
(* Timer handles are 1..MaxTimers; None (0) is Python's None.              *)
(***************************************************************************)
EXTENDS Naturals, FiniteSets, Sequences, Bags, TLC

\* ---- bounds of the model
MaxToken == 2
MaxRefreshToken == 1
MaxTimers == 2
MaxInFlight == 2

\* ---- values of the program
NoToken == 0
None == 0

VARIABLES
    is_closed,              \* self.is_closed
    access_token,           \* self.access_token
    refresh_token,          \* self.refresh_token
    token_refresh_handle,   \* self.token_refresh_handle (None or a TimerHandle)
    timers,                 \* event loop: TimerHandles scheduled, not cancelled, not yet run
    created,                \* event loop: request_token tasks created by a timer, not yet started
    inflight,               \* bag of HTTP requests awaiting their response
    last                    \* the step just taken (what ran, the response it got, how it ended)

vars == <<is_closed, access_token, refresh_token, token_refresh_handle,
          timers, created, inflight, last>>

Tokens == 1..MaxToken
RefreshTokens == 1..MaxRefreshToken
Handles == 1..MaxTimers

\* ---- the session object together with the loop's timers, as one value
self == [is_closed |-> is_closed,
         access_token |-> access_token,
         refresh_token |-> refresh_token,
         token_refresh_handle |-> token_refresh_handle,
         timers |-> timers]

Commit(s) ==
    /\ is_closed' = s.is_closed
    /\ access_token' = s.access_token
    /\ refresh_token' = s.refresh_token
    /\ token_refresh_handle' = s.token_refresh_handle
    /\ timers' = s.timers

\* ---- what the device (or the network) can answer to one HTTP request
StatusKinds == {"status401", "status500"}
ConnectionFailures == {"ServerDisconnectedError", "ClientConnectionError", "TimeoutError"}

TokenResponses ==
    [kind : {"json"}, access_token : Tokens, refresh_token : RefreshTokens]
    \cup [kind : {"json_no_refresh_token"}, access_token : Tokens, refresh_token : {NoToken}]
    \cup [kind : {"empty", "not_json"} \cup StatusKinds \cup ConnectionFailures,
          access_token : {NoToken}, refresh_token : {NoToken}]

\* a measurements / parameters document carries no token
DocumentResponses ==
    [kind : {"json", "empty", "not_json"} \cup StatusKinds \cup ConnectionFailures,
     access_token : {NoToken}, refresh_token : {NoToken}]

\* ---- TimerHandle.cancel(): a handle that already ran or was cancelled is unaffected
cancel(s, h) == [s EXCEPT !.timers = @ \ {h}]

\* ---- loop.call_later(): a fresh TimerHandle (never one the object still refers to)
FreeHandles(s) == {h \in Handles : h \notin s.timers /\ h # s.token_refresh_handle}

NewHandle(s) == CHOOSE h \in FreeHandles(s) : \A g \in FreeHandles(s) : h <= g

call_later(s) ==
    LET h == NewHandle(s)
    IN [s EXCEPT !.timers = @ \cup {h}, !.token_refresh_handle = h]

\* ---- the handles on which SmaEvCharger.close() calls cancel()
close_cancels(s) ==
    IF s.token_refresh_handle # None THEN {s.token_refresh_handle} ELSE {}

\* ---- SmaEvCharger.close()
close_without_cancel(s) == [s EXCEPT !.is_closed = TRUE]

close(s) ==
    LET s1 == [s EXCEPT !.is_closed = TRUE]
    IN IF s1.token_refresh_handle # None
       THEN cancel(s1, s1.token_refresh_handle)
       ELSE s1

\* ---- SmaEvCharger.request_json(), from the response on.
\* result: "document" (a non-empty JSON value) or "empty" ({}).
request_json_end_closing(s, resp) ==
    IF resp.kind \in StatusKinds
    THEN [self |-> close(s), outcome |-> "ClientResponseError", result |-> "none"]
    ELSE IF resp.kind \in ConnectionFailures
    THEN [self |-> close(s), outcome |-> "SmaEvChargerConnectionError", result |-> "none"]
    ELSE IF resp.kind = "json" \/ resp.kind = "json_no_refresh_token"
    THEN [self |-> s, outcome |-> "return", result |-> "document"]
    ELSE [self |-> s, outcome |-> "return", result |-> "empty"]

request_json_end_strict(s, resp) ==
    IF resp.kind \in StatusKinds
    THEN [self |-> s, outcome |-> "ClientResponseError", result |-> "none"]
    ELSE IF resp.kind \in ConnectionFailures \/ resp.kind = "not_json"
    THEN [self |-> close(s), outcome |-> "SmaEvChargerConnectionError", result |-> "none"]
    ELSE IF resp.kind = "json" \/ resp.kind = "json_no_refresh_token"
    THEN [self |-> s, outcome |-> "return", result |-> "document"]
    ELSE [self |-> s, outcome |-> "return", result |-> "empty"]

request_json_end(s, resp) ==
    IF resp.kind \in StatusKinds
    THEN [self |-> s, outcome |-> "ClientResponseError", result |-> "none"]
    ELSE IF resp.kind \in ConnectionFailures
    THEN [self |-> close(s), outcome |-> "SmaEvChargerConnectionError", result |-> "none"]
    ELSE IF resp.kind = "json" \/ resp.kind = "json_no_refresh_token"
    THEN [self |-> s, outcome |-> "return", result |-> "document"]
    ELSE [self |-> s, outcome |-> "return", result |-> "empty"]

\* ---- SmaEvCharger.request_token(), up to the await of request_json:
\* cancels the handle the object holds and builds the form data.
request_token_begin(s, force_credentials) ==
    LET s1 == IF s.token_refresh_handle # None
              THEN cancel(s, s.token_refresh_handle)
              ELSE s
    IN IF s1.refresh_token # NoToken /\ ~force_credentials
       THEN [self |-> s1, grant |-> "refresh_token", cred |-> s1.refresh_token]
       ELSE [self |-> s1, grant |-> "password", cred |-> NoToken]

\* ---- SmaEvCharger.request_token(), from the response on.
request_token_end_clearing(s, resp, auto_refresh) ==
    LET r == request_json_end(s, resp)
    IN IF r.outcome # "return"
       THEN r
       ELSE IF r.result = "empty"
       THEN [r EXCEPT !.self.refresh_token = NoToken, !.self.access_token = NoToken]
       ELSE LET s1 == [r.self EXCEPT !.access_token = resp.access_token]
            IN IF resp.kind = "json_no_refresh_token"
               THEN [self |-> s1, outcome |-> "KeyError", result |-> "none"]
               ELSE LET s2 == [s1 EXCEPT !.refresh_token = resp.refresh_token]
                    IN [self |-> IF auto_refresh THEN call_later(s2) ELSE s2,
                        outcome |-> "return", result |-> "document"]

request_token_end(s, resp, auto_refresh) ==
    LET r == request_json_end(s, resp)
    IN IF r.outcome # "return"
       THEN r
       ELSE IF r.result = "empty"
       THEN [r EXCEPT !.self.refresh_token = NoToken]
       ELSE LET s1 == [r.self EXCEPT !.access_token = resp.access_token]
            IN IF resp.kind = "json_no_refresh_token"
               THEN [self |-> s1, outcome |-> "KeyError", result |-> "none"]
               ELSE LET s2 == [s1 EXCEPT !.refresh_token = resp.refresh_token]
                    IN [self |-> IF auto_refresh THEN call_later(s2) ELSE s2,
                        outcome |-> "return", result |-> "document"]

\* ---- SmaEvCharger.open(), from the response on.
open_end(s, resp) ==
    LET r == request_token_end(s, resp, TRUE)
    IN IF r.outcome = "ClientResponseError"
       THEN [r EXCEPT !.outcome = "SmaEvChargerAuthenticationError"]
       ELSE IF r.outcome # "return"
       THEN r
       ELSE [r EXCEPT !.self.is_closed = FALSE]

\* whether handling resp needs a fresh TimerHandle
Schedules(resp) == resp.kind = "json"

\* ---- the record of the step just taken
\*   ev                 : what ran
\*   grant, cred        : the grant type and credential of the request it sent
\*   resp, access_token : the response it handled
\*   outcome            : how the coroutine ended ("none": it is suspended)
\*   rt_is_closed       : is_closed as request_token / request_json left it
\*   had_refresh_token, handle_live : the object as the response found it
Event(ev, grant, cred, resp, outcome, rt_is_closed, had_refresh_token, handle_live) ==
    [ev |-> ev, grant |-> grant, cred |-> cred,
     resp |-> resp.kind, access_token |-> resp.access_token,
     outcome |-> outcome, rt_is_closed |-> rt_is_closed,
     had_refresh_token |-> had_refresh_token, handle_live |-> handle_live]

NoResponse == [kind |-> "none", access_token |-> NoToken, refresh_token |-> NoToken]

\* a coroutine or callback ran and sent no request and handled no response
Did(ev, outcome) == Event(ev, "none", NoToken, NoResponse, outcome, FALSE, FALSE, FALSE)

\* a coroutine ran up to the await of its HTTP request
Started(ev, grant, cred) == Event(ev, grant, cred, NoResponse, "none", FALSE, FALSE, FALSE)

\* a coroutine ran on from the response to its HTTP request
Finished(ev, resp, outcome, rt_is_closed) ==
    Event(ev, "none", NoToken, resp, outcome, rt_is_closed,
          refresh_token # NoToken, token_refresh_handle \in timers)

Pending == BagCardinality(inflight) + created

Send(req) == inflight' = inflight (+) SetToBag({req})

Receive(req) == inflight' = inflight (-) SetToBag({req})

Init ==
    /\ is_closed = TRUE
    /\ access_token = NoToken
    /\ refresh_token = NoToken
    /\ token_refresh_handle = None
    /\ timers = {}
    /\ created = 0
    /\ inflight = EmptyBag
    /\ last = Did("init", "none")

\* a caller awaits open(): request_token(auto_refresh=True, force_credentials=True)
\* runs up to its HTTP request
Open ==
    /\ Pending < MaxInFlight
    /\ LET b == request_token_begin(self, TRUE)
       IN /\ Commit(b.self)
          /\ Send([kind |-> "open", grant |-> b.grant, cred |-> b.cred])
          /\ last' = Started("open", b.grant, b.cred)
    /\ UNCHANGED created

\* a caller awaits close()
Close ==
    /\ Commit(close(self))
    /\ last' = Did("close", "return")
    /\ UNCHANGED <<created, inflight>>

\* a caller awaits request_measurements(), request_parameters() or set_parameter():
\* request_json with the default headers, up to its HTTP request
Request ==
    /\ Pending < MaxInFlight
    /\ Send([kind |-> "request", grant |-> "bearer", cred |-> access_token])
    /\ last' = Started("request", "bearer", access_token)
    /\ UNCHANGED <<is_closed, access_token, refresh_token, token_refresh_handle,
                   timers, created>>

\* a scheduled timer runs: its callback creates the task request_token(auto_refresh=True)
TimerFire ==
    \E h \in timers :
        /\ Pending < MaxInFlight
        /\ timers' = timers \ {h}
        /\ created' = created + 1
        /\ last' = Did("timer", "return")
        /\ UNCHANGED <<is_closed, access_token, refresh_token, token_refresh_handle,
                       inflight>>

\* the created task starts: request_token(auto_refresh=True), force_credentials
\* left at its default (True), runs up to its HTTP request
RefreshStart ==
    /\ created > 0
    /\ created' = created - 1
    /\ LET b == request_token_begin(self, TRUE)
       IN /\ Commit(b.self)
          /\ Send([kind |-> "refresh", grant |-> b.grant, cred |-> b.cred])
          /\ last' = Started("refresh_start", b.grant, b.cred)

\* the token endpoint answers an open(): request_json, request_token and open() run on
OpenResponse ==
    \E req \in BagToSet(inflight), resp \in TokenResponses :
        /\ req.kind = "open"
        /\ Schedules(resp) => FreeHandles(self) # {}
        /\ Receive(req)
        /\ LET rt == request_token_end(self, resp, TRUE)
               r == open_end(self, resp)
           IN /\ Commit(r.self)
              /\ last' = Finished("open_done", resp, r.outcome, rt.self.is_closed)
        /\ UNCHANGED created

\* the token endpoint answers a background refresh: request_json and request_token
\* run on; nobody awaits the task
RefreshResponse ==
    \E req \in BagToSet(inflight), resp \in TokenResponses :
        /\ req.kind = "refresh"
        /\ Schedules(resp) => FreeHandles(self) # {}
        /\ Receive(req)
        /\ LET r == request_token_end(self, resp, TRUE)
           IN /\ Commit(r.self)
              /\ last' = Finished("refresh_done", resp, r.outcome, r.self.is_closed)
        /\ UNCHANGED created

\* the device answers a caller's request: request_json runs on
RequestResponse ==
    \E req \in BagToSet(inflight), resp \in DocumentResponses :
        /\ req.kind = "request"
        /\ Receive(req)
        /\ LET r == request_json_end(self, resp)
           IN /\ Commit(r.self)
              /\ last' = Finished("request_done", resp, r.outcome, r.self.is_closed)
        /\ UNCHANGED created

Next ==
    \/ Open
    \/ Close
    \/ Request
    \/ TimerFire
    \/ RefreshStart
    \/ OpenResponse
    \/ RefreshResponse
    \/ RequestResponse

Spec == Init /\ [][Next]_vars

TypeOK ==
    /\ is_closed \in BOOLEAN
    /\ access_token \in {NoToken} \cup Tokens
    /\ refresh_token \in {NoToken} \cup RefreshTokens
    /\ token_refresh_handle \in {None} \cup Handles
    /\ timers \subseteq Handles
    /\ created \in 0..MaxInFlight
    /\ BagCardinality(inflight) <= MaxInFlight

(***************************************************************************)
(* The pure computations of the package, applied to inputs drawn from      *)
(* bounded sets.  Under Helpers the session stays as constructed and last  *)
(* records the call just made: the function, its arguments, its result.    *)
(***************************************************************************)
Called(fn, args, out) == [ev |-> fn, args |-> args, out |-> out]

\* one call is made on the object as constructed
NothingCalled == last.ev = "init"

SessionUntouched ==
    UNCHANGED <<is_closed, access_token, refresh_token, token_refresh_handle,
                timers, created, inflight>>

\* ---- the delay request_token hands to call_later
MaxExpiresIn == 3700

TOKEN_TIMEOUT == 3600

\* what a token document says about its lifetime: expires_in may be missing
TokenLifetimes ==
    [has_expires_in : {TRUE}, expires_in : 1..MaxExpiresIn]
    \cup [has_expires_in : {FALSE}, expires_in : {0}]

\* result.get("expires_in", TOKEN_TIMEOUT)
expires_in_of(result) ==
    IF result.has_expires_in THEN result.expires_in ELSE TOKEN_TIMEOUT

\* int(expires_in * 0.9): the double product, truncated.  For every integer
\* below 3 000 000 this is the integer quotient of 9 * expires_in by 10.
refresh_delay_at_expiry(result) == expires_in_of(result)

refresh_delay(result) == (expires_in_of(result) * 9) \div 10

RefreshDelay ==
    /\ NothingCalled
    /\ \E result \in TokenLifetimes :
           /\ last' = Called("refresh_delay", result, refresh_delay(result))
           /\ SessionUntouched

\* ---- helpers.get_measurements_channel
MaxRecords == 3

ComponentIds == {"IGULD:SELF", "DUMMY:SELF"}
ChannelIds == {"Measurement.ChaSess.WhIn", "Measurement.Chrg.ModSw"}

\* the measurement document with the keys k, of up to MaxRecords records; the
\* values of a record are told apart by its place in the document
MeasurementDoc(k) ==
    [i \in 1..Len(k) |-> [componentId |-> k[i][1], channelId |-> k[i][2], values |-> i]]

Returned(value) == [outcome |-> "return", value |-> value, message |-> <<>>]

Raised(exception, message) == [outcome |-> exception, value |-> 0, message |-> message]

\* the for loop: the place of the record it breaks at, 0 when it runs to its else
RECURSIVE measurements_loop_either(_, _, _, _)
measurements_loop_either(measurements, i, channel_id, component_id) ==
    IF i > Len(measurements)
    THEN 0
    ELSE IF measurements[i].componentId = component_id
            \/ measurements[i].channelId = channel_id
    THEN i
    ELSE measurements_loop_either(measurements, i + 1, channel_id, component_id)

RECURSIVE measurements_loop(_, _, _, _)
measurements_loop(measurements, i, channel_id, component_id) ==
    IF i > Len(measurements)
    THEN 0
    ELSE IF measurements[i].componentId = component_id
            /\ measurements[i].channelId = channel_id
    THEN i
    ELSE measurements_loop(measurements, i + 1, channel_id, component_id)

get_measurements_channel(measurements, channel_id, component_id) ==
    LET i == measurements_loop(measurements, 1, channel_id, component_id)
    IN IF i = 0
       THEN Raised("KeyError", <<"component_id", component_id, "with channel_id",
                                 channel_id, "does not exist">>)
       ELSE Returned(measurements[i].values)

GetMeasurementsChannel ==
    /\ NothingCalled
    /\ \E n \in 0..MaxRecords, channel_id \in ChannelIds, component_id \in ComponentIds :
         \E k \in [1..n -> ComponentIds \X ChannelIds] :
           LET measurements == MeasurementDoc(k)
           IN /\ last' = Called("get_measurements_channel",
                                [measurements |-> measurements, channel_id |-> channel_id,
                                 component_id |-> component_id],
                                get_measurements_channel(measurements, channel_id,
                                                         component_id))
              /\ SessionUntouched

\* ---- helpers.get_parameters_channel
MaxComponents == 2
MaxChannels == 2

ParameterChannelIds == {"Parameter.Chrg.ActChaMod", "Parameter.Chrg.Plan.DurTmm"}

ChannelIdLists == UNION {[1..m -> ParameterChannelIds] : m \in 0..MaxChannels}

\* the parameter document with the component ids k and the channel ids ch, of up
\* to MaxComponents components of up to MaxChannels channels each; the value of a
\* channel record is told apart by its place
ParameterDoc(k, ch) ==
    [c \in 1..Len(k) |->
        [componentId |-> k[c],
         values |-> [j \in 1..Len(ch[c]) |-> [channelId |-> ch[c][j], value |-> <<c, j>>]]]]

\* the first for loop: the place of the component it breaks at, 0 when it runs to
\* its else
component_loop_last(parameters, i, component_id) ==
    LET matching == {c \in i..Len(parameters) : parameters[c].componentId = component_id}
    IN IF matching = {}
       THEN 0
       ELSE CHOOSE c \in matching : \A d \in matching : d <= c

RECURSIVE component_loop(_, _, _)
component_loop(parameters, i, component_id) ==
    IF i > Len(parameters)
    THEN 0
    ELSE IF parameters[i].componentId = component_id
    THEN i
    ELSE component_loop(parameters, i + 1, component_id)

\* the second for loop, over component["values"]
RECURSIVE channel_loop(_, _, _)
channel_loop(channels, j, channel_id) ==
    IF j > Len(channels)
    THEN 0
    ELSE IF channels[j].channelId = channel_id
    THEN j
    ELSE channel_loop(channels, j + 1, channel_id)

get_parameters_channel(parameters, channel_id, component_id) ==
    LET c == component_loop(parameters, 1, component_id)
    IN IF c = 0
       THEN Raised("KeyError", <<"component_id", component_id, "does not exist">>)
       ELSE LET j == channel_loop(parameters[c].values, 1, channel_id)
            IN IF j = 0
               THEN Raised("KeyError", <<"channel_id", channel_id, "does not exist">>)
               ELSE Returned(parameters[c].values[j])

GetParametersChannel ==
    /\ NothingCalled
    /\ \E n \in 0..MaxComponents, channel_id \in ParameterChannelIds,
          component_id \in ComponentIds :
         \E k \in [1..n -> ComponentIds], ch \in [1..n -> ChannelIdLists] :
           LET parameters == ParameterDoc(k, ch)
           IN /\ last' = Called("get_parameters_channel",
                                [parameters |-> parameters, channel_id |-> channel_id,
                                 component_id |-> component_id],
                                get_parameters_channel(parameters, channel_id, component_id))
              /\ SessionUntouched

\* ---- helpers.evchargerformat
\* A string is a sequence of tokens <<text, number>>: the date and time down to
\* the second, ".", the three millisecond digits (their number), the sign of the
\* UTC offset, its hours, ":", its minutes, "Z".
MaxMicrosecond == 2999

Tok(text, number) == <<text, number>>

\* tzinfo: None, or a fixed offset from UTC
TimeZones ==
    [aware : {FALSE}, sign : {"+"}, hours : {0}, minutes : {0}]
    \cup [aware : {TRUE}, sign : {"+"}, hours : {0, 2, 5}, minutes : {0, 30}]
    \cup [aware : {TRUE}, sign : {"-"}, hours : {5}, minutes : {0}]

\* datetime.isoformat(timespec="milliseconds"): the microseconds are truncated,
\* and an aware datetime ends in its UTC offset, +HH:MM or -HH:MM
isoformat_milliseconds(timestamp) ==
    <<Tok("2023-12-03T04:56:07", 0), Tok(".", 0), Tok("ms", timestamp.microsecond \div 1000)>>
    \o (IF timestamp.tzinfo.aware
        THEN <<Tok(timestamp.tzinfo.sign, 0), Tok("hh", timestamp.tzinfo.hours),
               Tok(":", 0), Tok("mm", timestamp.tzinfo.minutes)>>
        ELSE <<>>)

\* str.split(sep)[0]: the text before the first sep, all of it when there is none
RECURSIVE split_first(_, _)
split_first(string, sep) ==
    IF string = <<>> \/ Head(string)[1] = sep
    THEN <<>>
    ELSE <<Head(string)>> \o split_first(Tail(string), sep)

evchargerformat(timestamp) ==
    split_first(isoformat_milliseconds(timestamp), "+") \o <<Tok("Z", 0)>>

EvChargerFormat ==
    /\ NothingCalled
    /\ \E microsecond \in 0..MaxMicrosecond, tzinfo \in TimeZones :
           LET timestamp == [microsecond |-> microsecond, tzinfo |-> tzinfo]
           IN /\ last' = Called("evchargerformat", timestamp, evchargerformat(timestamp))
              /\ SessionUntouched

HelpersNext ==
    \/ RefreshDelay
    \/ GetMeasurementsChannel
    \/ GetParametersChannel
    \/ EvChargerFormat

Helpers == Init /\ [][HelpersNext]_vars

(***************************************************************************)
(* Properties                                                              *)
(***************************************************************************)

TokenRequestPending ==
    created > 0 \/ \E r \in BagToSet(inflight) : r.kind \in {"open", "refresh"}

EmptyResults == {"empty", "not_json"}

\* C1: in every reachable state at most one refresh timer is scheduled and not
\* cancelled, however open(), close(), requests and background refreshes interleave.
C1_AtMostOneLiveTimer == Cardinality(timers) <= 1

\* C2: in every reachable state in which the session is closed no refresh timer
\* is pending (close() cancelled it, and a token request in flight at close()
\* schedules none when it completes).
C2_ClosedHasNoPendingTimer == is_closed => timers = {}

\* C3: in every reachable state in which the session is closed, access_token and
\* refresh_token are both empty.
C3_ClosedHoldsNoTokens ==
    is_closed => access_token = NoToken /\ refresh_token = NoToken

\* C4: whenever open() returns without raising, the session is open, access_token
\* is non-empty and a refresh timer is scheduled.
C4_OpenReturnsReady ==
    (last.ev = "open_done" /\ last.outcome = "return")
        => (~is_closed /\ access_token # NoToken /\ token_refresh_handle \in timers)

\* C5: whenever open() raises an authentication or a connection error, the session
\* is closed afterwards and no refresh timer is pending, from any prior state.
C5_OpenRaisesLeavesClosed ==
    (last.ev = "open_done"
     /\ last.outcome \in {"SmaEvChargerAuthenticationError", "SmaEvChargerConnectionError"})
        => (is_closed /\ timers = {})

\* C6: a background refresh started while a refresh token is stored sends grant
\* type "refresh_token" with that token; it sends the "password" grant only when
\* no refresh token is stored.
C6_RefreshUsesRefreshToken ==
    last.ev = "refresh_start"
        => IF refresh_token # NoToken
           THEN last.grant = "refresh_token" /\ last.cred = refresh_token
           ELSE last.grant = "password"

\* C7: after a failed background refresh (HTTP error status, connection failure or
\* empty token response), while the session is open, a further refresh attempt is
\* still scheduled (a live timer, or a token request already under way).
C7_FailedRefreshReschedules ==
    (last.ev = "refresh_done"
     /\ last.resp \in StatusKinds \cup ConnectionFailures \cup EmptyResults
     /\ ~is_closed)
        => (timers # {} \/ TokenRequestPending)

\* C8: after a background refresh whose token request succeeded, while the session
\* is open, access_token is the token just returned and the next refresh is
\* scheduled on the handle the session holds.
C8_SuccessfulRefreshReschedules ==
    (last.ev = "refresh_done"
     /\ last.resp \in {"json", "json_no_refresh_token"}
     /\ ~is_closed)
        => (access_token = last.access_token /\ token_refresh_handle \in timers)

\* C9: a step in which a token request returns an empty result sets refresh_token
\* to empty and leaves access_token unchanged, and request_token leaves is_closed
\* as it found it.
C9_EmptyTokenResultKeepsAccessToken ==
    [][(last'.ev \in {"open_done", "refresh_done"} /\ last'.resp \in EmptyResults)
        => (/\ refresh_token' = NoToken
            /\ access_token' = access_token
            /\ last'.rt_is_closed = is_closed
            /\ last'.outcome = "return")]_vars

\* C9 witness: a background refresh of an open session that held both tokens got
\* an empty result; the access token is still there, the refresh token is gone.
C9_Witness ==
    /\ last.ev = "refresh_done"
    /\ last.resp \in EmptyResults
    /\ last.had_refresh_token
    /\ ~is_closed
    /\ access_token # NoToken
    /\ refresh_token = NoToken

\* C10: whenever a request made through request_json ends in a disconnect, a
\* connection error or a timeout, SmaEvChargerConnectionError is raised with the
\* session closed and the timer handle held at that moment cancelled.
C10_ConnectionFailureClosesSession ==
    (last.ev \in {"open_done", "refresh_done", "request_done"}
     /\ last.resp \in ConnectionFailures)
        => (/\ last.outcome = "SmaEvChargerConnectionError"
            /\ is_closed
            /\ last.rt_is_closed
            /\ token_refresh_handle \notin timers)

\* C10 witness: a caller's request of an open session timed out while the refresh
\* timer was pending; the session is closed and that timer is cancelled.
C10_Witness ==
    /\ last.ev = "request_done"
    /\ last.resp = "TimeoutError"
    /\ last.handle_live
    /\ last.outcome = "SmaEvChargerConnectionError"
    /\ is_closed
    /\ token_refresh_handle \notin timers

\* C11: close() never raises; with no timer ever scheduled it cancels nothing; and
\* in the state a close() has left, a second close() changes nothing and calls
\* cancel() on no handle.
C11_CloseIsIdempotent ==
    /\ last.ev = "close" => last.outcome = "return"
    /\ token_refresh_handle = None => (close_cancels(self) = {} /\ close(self).timers = timers)
    /\ last.ev = "close" => (close(self) = self /\ close_cancels(self) = {})

\* C12: the refresh delay is 0.9 x expires_in truncated to whole seconds for every
\* positive integer expires_in (3000 gives 2700, not 3000); a response without
\* expires_in is scheduled as if it said 3600.
C12_DelayIsNineTenthsTruncated ==
    last.ev = "refresh_delay"
        => LET e == IF last.args.has_expires_in THEN last.args.expires_in ELSE 3600
               d == last.out
           IN /\ 10 * d <= 9 * e
              /\ 9 * e < 10 * (d + 1)
              /\ e = 3000 => d = 2700
              /\ ~last.args.has_expires_in => d = 3240

\* C12 witness: expires_in = 3000 was scheduled 2700 seconds ahead.
C12_Witness ==
    /\ last.ev = "refresh_delay"
    /\ last.args.has_expires_in
    /\ last.args.expires_in = 3000
    /\ last.out = 2700

\* C13: a token response with access_token and no refresh_token is handled without
\* an error: the access token is stored, no refresh token is held, the refresh is
\* scheduled, and an open() that got it has completed with the session open.
C13_RefreshTokenIsOptional ==
    (last.ev \in {"open_done", "refresh_done"} /\ last.resp = "json_no_refresh_token")
        => (/\ last.outcome = "return"
            /\ access_token = last.access_token
            /\ refresh_token = NoToken
            /\ token_refresh_handle \in timers
            /\ last.ev = "open_done" => ~is_closed)

\* C14: open() raises SmaEvChargerAuthenticationError only for a 401 status of the
\* token endpoint; any other error status is not raised as an authentication error.
C14_OnlyUnauthorizedIsAuthenticationError ==
    (last.ev = "open_done" /\ last.outcome = "SmaEvChargerAuthenticationError")
        => last.resp = "status401"

\* C15: in every reachable state request_json answers a 2xx response whose body is
\* absent or not JSON by returning the empty result with the session as it was;
\* and a caller's request so answered returns and leaves is_closed, the tokens,
\* the handle and the pending timers unchanged.
C15_EmptyBodyIsEmptyResult ==
    /\ [](\A resp \in TokenResponses \cup DocumentResponses :
            resp.kind \in EmptyResults
                => request_json_end(self, resp)
                   = [self |-> self, outcome |-> "return", result |-> "empty"])
    /\ [][(last'.ev = "request_done" /\ last'.resp \in EmptyResults)
            => (last'.outcome = "return" /\ self' = self)]_vars

\* C15 witness: a caller's request of an open session with a pending refresh timer
\* got a 2xx response that is not JSON, and returned.
C15_Witness ==
    /\ last.ev = "request_done"
    /\ last.resp = "not_json"
    /\ last.outcome = "return"
    /\ ~is_closed
    /\ access_token # NoToken
    /\ token_refresh_handle \in timers

Names(message, id) == \E k \in 1..Len(message) : message[k] = id

\* C16: get_measurements_channel returns the values of the first record, in document
\* order, whose componentId and channelId both match; when no record matches both
\* it raises one error whose message names component_id and channel_id.
C16_MeasurementLookupIsFirstMatch ==
    last.ev = "get_measurements_channel"
        => LET m == last.args.measurements
               matching == {i \in 1..Len(m) :
                               /\ m[i].componentId = last.args.component_id
                               /\ m[i].channelId = last.args.channel_id}
           IN IF matching = {}
              THEN /\ last.out.outcome = "KeyError"
                   /\ Names(last.out.message, last.args.component_id)
                   /\ Names(last.out.message, last.args.channel_id)
              ELSE /\ last.out.outcome = "return"
                   /\ last.out.value \in matching
                   /\ \A j \in matching : m[last.out.value].values <= m[j].values
                   /\ \A j \in 1..Len(m) : j < last.out.value => j \notin matching

\* C16 witness: the first record matches only the channel, the second and third
\* match both, and the second record's values were returned.
C16_Witness ==
    /\ last.ev = "get_measurements_channel"
    /\ Len(last.args.measurements) = 3
    /\ last.args.measurements[1].channelId = last.args.channel_id
    /\ last.args.measurements[1].componentId # last.args.component_id
    /\ \A i \in {2, 3} :
          /\ last.args.measurements[i].componentId = last.args.component_id
          /\ last.args.measurements[i].channelId = last.args.channel_id
    /\ last.out = Returned(2)

First(S) == CHOOSE i \in S : \A j \in S : i <= j

\* C17: get_parameters_channel takes the first component, in document order, whose
\* componentId matches and returns the full record of the first channel of that
\* component whose channelId matches; it raises a component-not-found error naming
\* component_id when no component matches and a channel-not-found error naming
\* channel_id when that component has no such channel, whatever later components
\* with the same id hold.
C17_ParameterLookupIsFirstComponent ==
    last.ev = "get_parameters_channel"
        => LET p == last.args.parameters
               components == {c \in 1..Len(p) : p[c].componentId = last.args.component_id}
           IN IF components = {}
              THEN last.out = Raised("KeyError", <<"component_id", last.args.component_id,
                                                   "does not exist">>)
              ELSE LET channels == p[First(components)].values
                       found == {j \in 1..Len(channels) :
                                    channels[j].channelId = last.args.channel_id}
                   IN IF found = {}
                      THEN last.out = Raised("KeyError", <<"channel_id", last.args.channel_id,
                                                           "does not exist">>)
                      ELSE /\ last.out.outcome = "return"
                           /\ last.out.value = channels[First(found)]

\* C17 witness: two components carry the requested id; the first has no such
\* channel, the second has it, and the channel-not-found error was raised.
C17_Witness ==
    /\ last.ev = "get_parameters_channel"
    /\ Len(last.args.parameters) = 2
    /\ \A c \in {1, 2} : last.args.parameters[c].componentId = last.args.component_id
    /\ \A j \in 1..Len(last.args.parameters[1].values) :
          last.args.parameters[1].values[j].channelId # last.args.channel_id
    /\ \E j \in 1..Len(last.args.parameters[2].values) :
          last.args.parameters[2].values[j].channelId = last.args.channel_id
    /\ last.out.outcome = "KeyError"
    /\ Names(last.out.message, last.args.channel_id)

\* C18: no caller request is sent to the device while the session is closed: a step
\* in which request_json sent a caller's HTTP request was taken with the session open.
C18_ClosedRequestFailsFast ==
    last.ev = "request" => ~is_closed

\* C19: for every timestamp (naive, UTC, positive offset, negative offset)
\* evchargerformat gives the date and time, the microseconds truncated to
\* milliseconds, then "Z", and nothing of a UTC offset.
C19_FormatEndsInZWithoutOffset ==
    last.ev = "evchargerformat"
        => /\ Len(last.out) = 4
           /\ last.out[1] = Tok("2023-12-03T04:56:07", 0)
           /\ last.out[2] = Tok(".", 0)
           /\ last.out[3][1] = "ms"
           /\ 1000 * last.out[3][2] <= last.args.microsecond
           /\ last.args.microsecond < 1000 * (last.out[3][2] + 1)
           /\ last.out[4] = Tok("Z", 0)
           /\ \A i \in 1..Len(last.out) : last.out[i][1] \notin {"+", "-", "hh", "mm"}

\* C20: a step in which a caller's authenticated request is answered with an error
\* status raises that error to the caller and leaves is_closed, access_token,
\* refresh_token, the held handle and the pending timers as they were.
C20_ErrorStatusLeavesSessionAlone ==
    [][(last'.ev = "request_done" /\ last'.resp \in StatusKinds)
        => (/\ last'.outcome = "ClientResponseError"
            /\ is_closed' = is_closed
            /\ access_token' = access_token
            /\ refresh_token' = refresh_token
            /\ token_refresh_handle' = token_refresh_handle
            /\ timers' = timers)]_vars

\* C20 witness: a caller's request of an open session got status 500; the session
\* is still open with its tokens and its refresh timer pending.
C20_Witness ==
    /\ last.ev = "request_done"
    /\ last.resp = "status500"
    /\ last.outcome = "ClientResponseError"
    /\ ~is_closed
    /\ access_token # NoToken
    /\ refresh_token # NoToken
    /\ token_refresh_handle \in timers
====
